---- MODULE Spec2Model ----
(***************************************************************************)
(* Jungle (Dou Shou Qi) rules engine, alpha-beta search and game loop of   *)
(* src/main.py, as a state machine.                                        *)
(*                                                                         *)
(* A position is <<x, y>>.  board[y][x] is None or <<player, rank>>.       *)
(* pieces[player] is a Python dict rank -> position; a dict iterates in    *)
(* insertion order, so it is modelled as the sequence of its items         *)
(* <<rank, position>> in that order.                                       *)
(***************************************************************************)
EXTENDS Integers, Sequences, FiniteSets, TLC

\* ---------------------------------------------------------------- constants
LICZ_ROZGR == 4
MAX_DEPTH == 3
A == 1
B == 1
MAXIMAL_PASSIVE == 30
MX == 7
MY == 9
\* cmath.inf: larger than any value heur can return (|heur| <= 40 + 32)
inf == 1000

None == <<>>
NoWinner == -1

rat == 0
cat == 1
dog == 2
wolf == 3
jaguar == 4
tiger == 5
lion == 6
elephant == 7

PIECE_VALUES == [i \in 0..7 |->
    CASE i = 0 -> 4 [] i = 1 -> 1 [] i = 2 -> 2 [] i = 3 -> 3
      [] i = 4 -> 5 [] i = 5 -> 7 [] i = 6 -> 8 [] i = 7 -> 10]

traps == {<<2, 0>>, <<4, 0>>, <<3, 1>>, <<2, 8>>, <<4, 8>>, <<3, 7>>}
ponds == {<<x, y>> : x \in {1, 2, 4, 5}, y \in {3, 4, 5}}
dens == [p \in 0..1 |-> IF p = 0 THEN <<3, 8>> ELSE <<3, 0>>]
dirs == << <<0, 1>>, <<1, 0>>, <<-1, 0>>, <<0, -1>> >>

Cells == {<<x, y>> : x \in 0..(MX - 1), y \in 0..(MY - 1)}

Abs(n) == IF n < 0 THEN -n ELSE n

\* ------------------------------------------------------ Python dict helpers
\* k in d
Has(d, k) == \E i \in 1..Len(d) : d[i][1] = k
\* d[k]
Get(d, k) == d[CHOOSE i \in 1..Len(d) : d[i][1] = k][2]
\* del d[k]
Del(d, k) == SelectSeq(d, LAMBDA it : it[1] # k)
\* d[k] = v : an existing key keeps its place, a new key goes last
Put(d, k, v) ==
    IF Has(d, k)
    THEN [i \in 1..Len(d) |-> IF d[i][1] = k THEN <<k, v>> ELSE d[i]]
    ELSE Append(d, <<k, v>>)
\* the dict as a mapping (what == compares in Python)
AsMap(d) == {d[i] : i \in 1..Len(d)}

RECURSIVE Flatten(_)
Flatten(ss) == IF ss = <<>> THEN <<>> ELSE Head(ss) \o Flatten(Tail(ss))

\* ------------------------------------------------------------ rules engine
\* can_beat without the two tests of the rat against the elephant
can_beat_by_rank(p1, p2, pos1, pos2) ==
    IF pos1 \in ponds /\ pos2 \in ponds THEN TRUE
    ELSE IF pos1 \in ponds THEN FALSE
    ELSE IF p1 >= p2 THEN TRUE
    ELSE IF pos2 \in traps THEN TRUE
    ELSE FALSE

can_beat(p1, p2, pos1, pos2) ==
    IF pos1 \in ponds /\ pos2 \in ponds THEN TRUE
    ELSE IF pos1 \in ponds THEN FALSE
    ELSE IF p1 = rat /\ p2 = elephant THEN TRUE
    ELSE IF p1 = elephant /\ p2 = rat THEN FALSE
    ELSE IF p1 >= p2 THEN TRUE
    ELSE IF pos2 \in traps THEN TRUE
    ELSE FALSE

\* the player of range(7, -1, -1)'s first rank held by exactly one player
RECURSIVE pieces_comparison_from(_, _)
pieces_comparison_from(pcs, i) ==
    IF i < 0 THEN NoWinner
    ELSE LET ps == SelectSeq(<<0, 1>>, LAMBDA p : Has(pcs[p], i))
         IN IF Len(ps) = 1 THEN ps[1] ELSE pieces_comparison_from(pcs, i - 1)

\* pieces_comparison scanning range(8): from the rat up
RECURSIVE pieces_comparison_up(_, _)
pieces_comparison_up(pcs, i) ==
    IF i > 7 THEN NoWinner
    ELSE LET ps == SelectSeq(<<0, 1>>, LAMBDA p : Has(pcs[p], i))
         IN IF Len(ps) = 1 THEN ps[1] ELSE pieces_comparison_up(pcs, i + 1)

pieces_comparison_rat_first(pcs) == pieces_comparison_up(pcs, 0)

pieces_comparison(pcs) == pieces_comparison_from(pcs, 7)

rat_is_blocking(pcs, player_unused, pos, dx, dy) ==
    LET x == pos[1]
        y == pos[2]
        nx == x + dx
    IN \E player \in 0..1 :
          /\ Has(pcs[1 - player], rat)
          /\ LET r == Get(pcs[1 - player], rat)
                 rx == r[1]
                 ry == r[2]
             IN /\ r \in ponds
                /\ \/ dy # 0 /\ x = rx
                   \/ dx # 0 /\ y = ry /\ Abs(x - rx) <= 2 /\ Abs(nx - rx) <= 2

\* move_in_dir with the den of the player open to its pieces
move_in_dir_own_den(bd, pcs, player, p, pos, d) ==
    LET x == pos[1]
        y == pos[2]
        nx == x + d[1]
        ny == y + d[2]
    IN IF ~(0 <= nx /\ nx < MX /\ 0 <= ny /\ ny < MY) THEN <<>>
       ELSE IF <<nx, ny>> \in ponds /\ p \notin {rat, tiger, lion} THEN <<>>
       ELSE LET leap == <<nx, ny>> \in ponds /\ p \in {tiger, lion}
                dx == IF leap /\ d[1] # 0 THEN d[1] * 3 ELSE d[1]
                dy == IF leap /\ d[2] # 0 THEN d[2] * 4 ELSE d[2]
            IN IF leap /\ rat_is_blocking(pcs, player, pos, dx, dy) THEN <<>>
               ELSE LET pos2 == <<x + dx, y + dy>>
                        C == bd[pos2[2]][pos2[1]]
                    IN IF C # None /\ C[1] = player THEN <<>>
                       ELSE IF C # None /\ ~can_beat(p, C[2], pos, pos2) THEN <<>>
                       ELSE << <<pos, pos2>> >>

\* move_in_dir with the river open to every rank
move_in_dir_all_swim(bd, pcs, player, p, pos, d) ==
    LET x == pos[1]
        y == pos[2]
        nx == x + d[1]
        ny == y + d[2]
    IN IF ~(0 <= nx /\ nx < MX /\ 0 <= ny /\ ny < MY) THEN <<>>
       ELSE IF dens[player] = <<nx, ny>> THEN <<>>
       ELSE LET leap == <<nx, ny>> \in ponds /\ p \in {tiger, lion}
                dx == IF leap /\ d[1] # 0 THEN d[1] * 3 ELSE d[1]
                dy == IF leap /\ d[2] # 0 THEN d[2] * 4 ELSE d[2]
            IN IF leap /\ rat_is_blocking(pcs, player, pos, dx, dy) THEN <<>>
               ELSE LET pos2 == <<x + dx, y + dy>>
                        C == bd[pos2[2]][pos2[1]]
                    IN IF C # None /\ C[1] = player THEN <<>>
                       ELSE IF C # None /\ ~can_beat(p, C[2], pos, pos2) THEN <<>>
                       ELSE << <<pos, pos2>> >>

\* the moves one piece contributes for one direction: <<>> or << <<pos, pos2>> >>
move_in_dir(bd, pcs, player, p, pos, d) ==
    LET x == pos[1]
        y == pos[2]
        nx == x + d[1]
        ny == y + d[2]
    IN IF ~(0 <= nx /\ nx < MX /\ 0 <= ny /\ ny < MY) THEN <<>>
       ELSE IF dens[player] = <<nx, ny>> THEN <<>>
       ELSE IF <<nx, ny>> \in ponds /\ p \notin {rat, tiger, lion} THEN <<>>
       ELSE LET leap == <<nx, ny>> \in ponds /\ p \in {tiger, lion}
                dx == IF leap /\ d[1] # 0 THEN d[1] * 3 ELSE d[1]
                dy == IF leap /\ d[2] # 0 THEN d[2] * 4 ELSE d[2]
            IN IF leap /\ rat_is_blocking(pcs, player, pos, dx, dy) THEN <<>>
               ELSE LET pos2 == <<x + dx, y + dy>>
                        C == bd[pos2[2]][pos2[1]]
                    IN IF C # None /\ C[1] = player THEN <<>>
                       ELSE IF C # None /\ ~can_beat(p, C[2], pos, pos2) THEN <<>>
                       ELSE << <<pos, pos2>> >>

moves(bd, pcs, player) ==
    Flatten([i \in 1..Len(pcs[player]) |->
        Flatten([j \in 1..4 |->
            move_in_dir(bd, pcs, player, pcs[player][i][1], pcs[player][i][2], dirs[j])])])

\* A Jungle object: [board, pieces, curplayer, peace_counter, winner]
MkJungle(bd, pcs, cur, cnt, w) ==
    [board |-> bd, pieces |-> pcs, curplayer |-> cur, peace_counter |-> cnt, winner |-> w]

\* victory without the test of the opponent's den
victory_without_den(J, player) ==
    LET oponent == 1 - player
    IN IF Len(J.pieces[oponent]) = 0
       THEN [ret |-> TRUE, J |-> [J EXCEPT !.winner = player]]
       ELSE IF J.peace_counter >= MAXIMAL_PASSIVE
       THEN LET r == pieces_comparison(J.pieces)
            IN IF r = NoWinner
               THEN [ret |-> TRUE, J |-> [J EXCEPT !.winner = 0]]
               ELSE [ret |-> TRUE, J |-> [J EXCEPT !.winner = r]]
       ELSE [ret |-> FALSE, J |-> J]

\* victory(player, mes): [ret |-> the boolean returned, J |-> the object afterwards]
victory(J, player) ==
    LET oponent == 1 - player
        den == dens[oponent]
    IN IF Len(J.pieces[oponent]) = 0
       THEN [ret |-> TRUE, J |-> [J EXCEPT !.winner = player]]
       ELSE IF J.board[den[2]][den[1]] # None
       THEN [ret |-> TRUE, J |-> [J EXCEPT !.winner = player]]
       ELSE IF J.peace_counter >= MAXIMAL_PASSIVE
       THEN LET r == pieces_comparison(J.pieces)
            IN IF r = NoWinner
               THEN [ret |-> TRUE, J |-> [J EXCEPT !.winner = 0]]
               ELSE [ret |-> TRUE, J |-> [J EXCEPT !.winner = r]]
       ELSE [ret |-> FALSE, J |-> J]

\* do_move with del self.pieces[pl2][pc2] left out
do_move_keeps_taken(J, m) ==
    LET J1 == [J EXCEPT !.curplayer = 1 - J.curplayer]
    IN IF m = None THEN J1
       ELSE LET x == m[1][1]
                y == m[1][2]
                x2 == m[2][1]
                y2 == m[2][2]
                pl == J.board[y][x][1]
                pc == J.board[y][x][2]
                taken == J.board[y2][x2]
                cnt == IF taken # None THEN 0 ELSE J.peace_counter + 1
            IN [J1 EXCEPT
                  !.pieces = [J.pieces EXCEPT ![pl] = Put(@, pc, <<x2, y2>>)],
                  !.peace_counter = cnt,
                  !.board = [J.board EXCEPT ![y2][x2] = <<pl, pc>>, ![y][x] = None]]

\* do_move with self.peace_counter += 1 left out
do_move_uncounted(J, m) ==
    LET J1 == [J EXCEPT !.curplayer = 1 - J.curplayer]
    IN IF m = None THEN J1
       ELSE LET x == m[1][1]
                y == m[1][2]
                x2 == m[2][1]
                y2 == m[2][2]
                pl == J.board[y][x][1]
                pc == J.board[y][x][2]
                taken == J.board[y2][x2]
                pcs1 == IF taken # None
                        THEN [J.pieces EXCEPT ![taken[1]] = Del(@, taken[2])]
                        ELSE J.pieces
                cnt == IF taken # None THEN 0 ELSE J.peace_counter
            IN [J1 EXCEPT
                  !.pieces = [pcs1 EXCEPT ![pl] = Put(@, pc, <<x2, y2>>)],
                  !.peace_counter = cnt,
                  !.board = [J.board EXCEPT ![y2][x2] = <<pl, pc>>, ![y][x] = None]]

\* do_move(m); m is None (a pass) or <<pos1, pos2>>
do_move(J, m) ==
    LET J1 == [J EXCEPT !.curplayer = 1 - J.curplayer]
    IN IF m = None THEN J1
       ELSE LET x == m[1][1]
                y == m[1][2]
                x2 == m[2][1]
                y2 == m[2][2]
                pl == J.board[y][x][1]
                pc == J.board[y][x][2]
                taken == J.board[y2][x2]
                pcs1 == IF taken # None
                        THEN [J.pieces EXCEPT ![taken[1]] = Del(@, taken[2])]
                        ELSE J.pieces
                cnt == IF taken # None THEN 0 ELSE J.peace_counter + 1
            IN [J1 EXCEPT
                  !.pieces = [pcs1 EXCEPT ![pl] = Put(@, pc, <<x2, y2>>)],
                  !.peace_counter = cnt,
                  !.board = [J.board EXCEPT ![y2][x2] = <<pl, pc>>, ![y][x] = None]]

\* The value update returns when the game goes on (Python None)
KonNone == 0

\* update with the pass accepted whether or not the player has a legal move
update_pass_always(J, player, move_string) ==
    LET J0 == [J EXCEPT !.curplayer = player]
        possible_moves == moves(J0.board, J0.pieces, player)
        Raise == [raised |-> TRUE, kon |-> KonNone, J |-> J0]
        Go(m) == LET J1 == do_move(J0, m)
                     v == victory(J1, player)
                 IN IF v.ret
                    THEN [raised |-> FALSE, kon |-> 2 * v.J.winner - 1, J |-> v.J]
                    ELSE [raised |-> FALSE, kon |-> KonNone, J |-> v.J]
    IN IF Len(move_string) # 4 THEN Raise
       ELSE IF move_string = <<-1, -1, -1, -1>> THEN Go(None)
       ELSE IF possible_moves = <<>> THEN Raise
       ELSE LET move == << <<move_string[1], move_string[2]>>,
                           <<move_string[3], move_string[4]>> >>
            IN IF \A i \in 1..Len(possible_moves) : possible_moves[i] # move
               THEN Raise
               ELSE Go(move)

\* update(player, move_string, mes); the string is modelled as the tuple of the
\* integers it spells.  [raised |-> WrongMove was raised, kon |-> the value
\* returned, J |-> the object afterwards]
update(J, player, move_string) ==
    LET J0 == [J EXCEPT !.curplayer = player]
        possible_moves == moves(J0.board, J0.pieces, player)
        Raise == [raised |-> TRUE, kon |-> KonNone, J |-> J0]
        Go(m) == LET J1 == do_move(J0, m)
                     v == victory(J1, player)
                 IN IF v.ret
                    THEN [raised |-> FALSE, kon |-> 2 * v.J.winner - 1, J |-> v.J]
                    ELSE [raised |-> FALSE, kon |-> KonNone, J |-> v.J]
    IN IF Len(move_string) # 4 THEN Raise
       ELSE IF possible_moves = <<>>
       THEN IF move_string # <<-1, -1, -1, -1>> THEN Raise ELSE Go(None)
       ELSE LET move == << <<move_string[1], move_string[2]>>,
                           <<move_string[3], move_string[4]>> >>
            IN IF \A i \in 1..Len(possible_moves) : possible_moves[i] # move
               THEN Raise
               ELSE Go(move)

\* str(a)+' '+str(b)+' '+str(c)+' '+str(d) of a move ((a, b), (c, d))
MoveString(m) == <<m[1][1], m[1][2], m[2][1], m[2][2]>>

RECURSIVE SumSeq(_)
SumSeq(s) == IF s = <<>> THEN 0 ELSE Head(s) + SumSeq(Tail(s))

heur(J) ==
    LET licz_1 == SumSeq([i \in 1..Len(J.pieces[1]) |-> PIECE_VALUES[J.pieces[1][i][1]]])
        licz_2 == SumSeq([i \in 1..Len(J.pieces[0]) |-> PIECE_VALUES[J.pieces[0][i][1]]])
        licz1_1 == Len(moves(J.board, J.pieces, 1))
        licz1_2 == Len(moves(J.board, J.pieces, 0))
    IN A * (licz_1 - licz_2) + B * (licz1_1 - licz1_2)

\* A search result (value, px, py, px_2, py_2): the four coordinates are set
\* together, so they are kept as one move, None when they are None.
Result(v, m) == [value |-> v, move |-> m]
ZeroMove == << <<0, 0>>, <<0, 0>> >>

\* utility(p): victory returns a bool, which Python compares as 0 or 1
utility(J, p) ==
    LET b == IF victory(J, p).ret THEN 1 ELSE 0
    IN IF b < 0 THEN Result(inf, ZeroMove)
       ELSE IF b = 0 THEN Result(0, ZeroMove)
       ELSE Result(-inf, ZeroMove)

cut_off_tests(depth) == depth > MAX_DEPTH

\* The search's inline "affect" step for the move iter = ((a, b), (c, d)):
\* [J |-> the object afterwards, sv |-> the locals the undo step reads]
affect(J, iter) ==
    LET a == iter[1][1]
        b == iter[1][2]
        c == iter[2][1]
        d == iter[2][2]
        pl == J.board[b][a][1]
        pc == J.board[b][a][2]
        taken == J.board[d][c]
        zbicie == IF taken # None THEN 1 ELSE 0
        pl2 == IF taken # None THEN taken[1] ELSE 0
        pc2 == IF taken # None THEN taken[2] ELSE 0
        pcs1 == IF taken # None
                THEN [J.pieces EXCEPT ![pl2] = Del(@, pc2)]
                ELSE J.pieces
    IN [J |-> [J EXCEPT
                 !.pieces = [pcs1 EXCEPT ![pl] = Put(@, pc, <<c, d>>)],
                 !.peace_counter = IF taken # None THEN 0 ELSE J.peace_counter + 1,
                 !.board = [J.board EXCEPT ![d][c] = <<pl, pc>>, ![b][a] = None]],
        sv |-> [pl |-> pl, pc |-> pc, pl2 |-> pl2, pc2 |-> pc2,
                p_c |-> J.peace_counter, zbicie |-> zbicie]]

\* undo with the capture branch's peace_counter = p_c left out
undo_keeps_counter(J, iter, sv) ==
    LET a == iter[1][1]
        b == iter[1][2]
        c == iter[2][1]
        d == iter[2][2]
    IN IF sv.zbicie = 1
       THEN [J EXCEPT
               !.pieces = [[J.pieces EXCEPT ![sv.pl2] = Put(@, sv.pc2, <<c, d>>)]
                              EXCEPT ![sv.pl] = Put(@, sv.pc, <<a, b>>)],
               !.board = [J.board EXCEPT ![b][a] = <<sv.pl, sv.pc>>,
                                         ![d][c] = <<sv.pl2, sv.pc2>>]]
       ELSE [J EXCEPT
               !.pieces = [J.pieces EXCEPT ![sv.pl] = Put(@, sv.pc, <<a, b>>)],
               !.peace_counter = J.peace_counter - 1,
               !.board = [J.board EXCEPT ![b][a] = <<sv.pl, sv.pc>>, ![d][c] = None]]

\* The search's inline "undo everything" step
undo(J, iter, sv) ==
    LET a == iter[1][1]
        b == iter[1][2]
        c == iter[2][1]
        d == iter[2][2]
    IN IF sv.zbicie = 1
       THEN [J EXCEPT
               !.pieces = [[J.pieces EXCEPT ![sv.pl2] = Put(@, sv.pc2, <<c, d>>)]
                              EXCEPT ![sv.pl] = Put(@, sv.pc, <<a, b>>)],
               !.peace_counter = sv.p_c,
               !.board = [J.board EXCEPT ![b][a] = <<sv.pl, sv.pc>>,
                                         ![d][c] = <<sv.pl2, sv.pc2>>]]
       ELSE [J EXCEPT
               !.pieces = [J.pieces EXCEPT ![sv.pl] = Put(@, sv.pc, <<a, b>>)],
               !.peace_counter = J.peace_counter - 1,
               !.board = [J.board EXCEPT ![b][a] = <<sv.pl, sv.pc>>, ![d][c] = None]]

\* initial_board(): the rows of the starting layout, one glyph per cell
pieces_rows ==
    << <<"L", ".", ".", ".", ".", ".", "T">>,
       <<".", "D", ".", ".", ".", "C", ".">>,
       <<"R", ".", "J", ".", "W", ".", "E">>,
       <<".", ".", ".", ".", ".", ".", ".">>,
       <<".", ".", ".", ".", ".", ".", ".">>,
       <<".", ".", ".", ".", ".", ".", ".">>,
       <<"e", ".", "w", ".", "j", ".", "r">>,
       <<".", "c", ".", ".", ".", "d", ".">>,
       <<"t", ".", ".", ".", ".", ".", "l">> >>

\* (player, T[c.lower()]) for a glyph c
GlyphPiece(c) ==
    CASE c = "r" -> <<0, 0>> [] c = "c" -> <<0, 1>> [] c = "d" -> <<0, 2>>
      [] c = "w" -> <<0, 3>> [] c = "j" -> <<0, 4>> [] c = "t" -> <<0, 5>>
      [] c = "l" -> <<0, 6>> [] c = "e" -> <<0, 7>>
      [] c = "R" -> <<1, 0>> [] c = "C" -> <<1, 1>> [] c = "D" -> <<1, 2>>
      [] c = "W" -> <<1, 3>> [] c = "J" -> <<1, 4>> [] c = "T" -> <<1, 5>>
      [] c = "L" -> <<1, 6>> [] c = "E" -> <<1, 7>>

initial_board ==
    [y \in 0..8 |-> [x \in 0..6 |->
        IF pieces_rows[y + 1][x + 1] = "." THEN None
        ELSE GlyphPiece(pieces_rows[y + 1][x + 1])]]

\* Jungle.__init__: the index is filled scanning the board row by row
IndexOf(bd, pl) ==
    Flatten([yy \in 1..MY |-> Flatten([xx \in 1..MX |->
        LET C == bd[yy - 1][xx - 1]
        IN IF C # None /\ C[1] = pl THEN << <<C[2], <<xx - 1, yy - 1>>>> >> ELSE <<>>])])

NewJungle ==
    MkJungle(initial_board, [p \in 0..1 |-> IndexOf(initial_board, p)], 0, 0, NoWinner)

\* The object whose index holds the items p0 and p1 in this order and whose
\* board holds exactly those pieces
Position(p0, p1, cur, cnt, w) ==
    MkJungle([y \in 0..(MY - 1) |-> [x \in 0..(MX - 1) |->
                 IF \E i \in 1..Len(p0) : p0[i][2] = <<x, y>>
                 THEN <<0, p0[CHOOSE i \in 1..Len(p0) : p0[i][2] = <<x, y>>][1]>>
                 ELSE IF \E i \in 1..Len(p1) : p1[i][2] = <<x, y>>
                 THEN <<1, p1[CHOOSE i \in 1..Len(p1) : p1[i][2] = <<x, y>>][1]>>
                 ELSE None]],
             [p \in 0..1 |-> IF p = 0 THEN p0 ELSE p1], cur, cnt, w)

\* Positions of the game, each reached from NewJungle by legal moves of the two
\* players in turn, player 1 first, and each with player 0 to move.
\* two pieces a side, captures within the search depth, no terminal position
TwoAside ==
    Position(<< <<2, <<6, 4>>>>, <<6, <<5, 8>>>> >>,
             << <<6, <<1, 2>>>>, <<5, <<6, 3>>>> >>, 0, 16, NoWinner)

\* the passivity counter about to run out, the one-sided ranks split: the cat
\* is player 0's, the tiger player 1's
SplitRanks ==
    Position(<< <<1, <<2, 6>>>>, <<6, <<5, 8>>>> >>,
             << <<6, <<1, 1>>>>, <<5, <<5, 7>>>> >>, 0, 28, NoWinner)

\* a position of a game Player.loop played: all sixteen pieces, 27 quiet moves
LatePassive ==
    Position(<< <<7, <<0, 6>>>>, <<3, <<1, 8>>>>, <<4, <<5, 6>>>>, <<0, <<6, 6>>>>,
                <<1, <<0, 7>>>>, <<2, <<5, 7>>>>, <<5, <<0, 8>>>>, <<6, <<6, 8>>>> >>,
             << <<6, <<0, 1>>>>, <<5, <<6, 1>>>>, <<2, <<1, 0>>>>, <<1, <<5, 0>>>>,
                <<0, <<0, 3>>>>, <<4, <<2, 2>>>>, <<3, <<4, 0>>>>, <<7, <<6, 3>>>> >>,
             0, 27, NoWinner)

\* player 0's last piece, the rat, hemmed in by the tiger, the cat and the wolf
Cornered ==
    Position(<< <<0, <<6, 1>>>> >>,
             << <<6, <<0, 0>>>>, <<5, <<6, 0>>>>, <<2, <<0, 2>>>>, <<1, <<5, 1>>>>,
                <<4, <<2, 0>>>>, <<3, <<6, 2>>>>, <<7, <<0, 7>>>> >>, 0, 14, NoWinner)

\* a position of a game Player.loop played, player 1 having just moved: three
\* pieces a side, the index reordered and the winner set by earlier searches
ThreeAside ==
    Position(<< <<6, <<5, 8>>>>, <<4, <<4, 8>>>>, <<5, <<3, 7>>>> >>,
             << <<6, <<0, 1>>>>, <<5, <<5, 2>>>>, <<4, <<3, 6>>>> >>, 0, 23, 1)

SearchPositions == {TwoAside, ThreeAside, SplitRanks, LatePassive, Cornered}

\* A position at the top of Player.loop's while loop, in a game the loop played:
\* a lion each, and the winner an earlier search has left behind
LionDuel ==
    Position(<< <<6, <<5, 7>>>> >>, << <<6, <<4, 6>>>> >>, 1, 22, 1)

LoopPositions == {LionDuel}

\* A position at the top of the while loop three iterations after LionDuel, no
\* capture made since: player 1's lion on the trap (3, 7) beside player 0's den
LionDuelLate ==
    Position(<< <<6, <<5, 7>>>> >>, << <<6, <<3, 7>>>> >>, 0, 28, 0)

\* what a rollout has made of its copy of Cornered, before player 1's move in
\* sym's while loop: the candidate was the elephant's step from (0, 7) to (0, 6),
\* the last of moves(1); player 1 has moved thirteen times without a capture and
\* player 0, its rat shut in on (6, 1), has passed each time
CorneredLate ==
    Position(<< <<0, <<6, 1>>>> >>,
             << <<6, <<0, 1>>>>, <<5, <<6, 0>>>>, <<2, <<1, 1>>>>, <<1, <<5, 1>>>>,
                <<4, <<2, 1>>>>, <<3, <<6, 2>>>>, <<7, <<5, 7>>>> >>, 1, 27, NoWinner)

\* Positions of legal games from the initial board, player 0 to move with its
\* wolf on the trap (3, 1) in front of player 1's den: all sixteen pieces on
\* the board, and seven against six
DenRush ==
    Position(<< <<7, <<0, 6>>>>, <<3, <<2, 6>>>>, <<4, <<3, 1>>>>, <<0, <<6, 6>>>>,
                <<1, <<1, 7>>>>, <<2, <<5, 7>>>>, <<5, <<0, 8>>>>, <<6, <<6, 8>>>> >>,
             << <<6, <<0, 0>>>>, <<5, <<5, 0>>>>, <<2, <<1, 0>>>>, <<1, <<4, 1>>>>,
                <<0, <<0, 1>>>>, <<4, <<1, 2>>>>, <<3, <<5, 2>>>>, <<7, <<6, 3>>>> >>,
             0, 13, NoWinner)

DenRaid ==
    Position(<< <<7, <<0, 6>>>>, <<4, <<3, 1>>>>, <<0, <<6, 6>>>>, <<1, <<1, 7>>>>,
                <<2, <<5, 7>>>>, <<5, <<0, 8>>>>, <<6, <<6, 8>>>> >>,
             << <<6, <<0, 1>>>>, <<5, <<5, 0>>>>, <<2, <<1, 2>>>>, <<0, <<1, 0>>>>,
                <<3, <<5, 2>>>>, <<7, <<6, 1>>>> >>,
             0, 3, NoWinner)

DenPositions == {DenRush, DenRaid}

\* a position of a legal game from the initial board, eight plies in: player 1
\* to move, its elephant on (6, 3) beside player 0's rat on (6, 4)
ElephantAtRat ==
    Position(<< <<7, <<0, 6>>>>, <<3, <<2, 6>>>>, <<4, <<4, 6>>>>, <<0, <<6, 4>>>>,
                <<1, <<1, 7>>>>, <<2, <<5, 7>>>>, <<5, <<0, 8>>>>, <<6, <<6, 8>>>> >>,
             << <<6, <<0, 0>>>>, <<5, <<6, 0>>>>, <<2, <<1, 1>>>>, <<1, <<5, 2>>>>,
                <<0, <<1, 2>>>>, <<4, <<2, 1>>>>, <<3, <<4, 2>>>>, <<7, <<6, 3>>>> >>,
             1, 8, NoWinner)

\* a position of a legal game from the initial board, fifteen plies in: player 0
\* to move, its rat in the river on (4, 5) and its lion on the bank on (5, 6)
RatInRiver ==
    Position(<< <<7, <<0, 6>>>>, <<3, <<2, 6>>>>, <<4, <<4, 6>>>>, <<0, <<4, 5>>>>,
                <<1, <<1, 7>>>>, <<2, <<5, 8>>>>, <<5, <<0, 8>>>>, <<6, <<5, 6>>>> >>,
             << <<6, <<1, 0>>>>, <<5, <<6, 1>>>>, <<2, <<1, 1>>>>, <<1, <<5, 0>>>>,
                <<0, <<0, 2>>>>, <<4, <<3, 3>>>>, <<3, <<4, 1>>>>, <<7, <<4, 2>>>> >>,
             0, 15, NoWinner)

\* ------------------------------------------------------------------ bounds
\* iterations of Player.loop's while loop that are followed
MaxRounds == 2
\* root calls of the search made in a row on one position
RootCalls == 2
\* moves played through update after the root calls
MaxPlies == 1

\* ------------------------------------------------------------------ state
VARIABLES
    board, pieces, curplayer, peace_counter, winner,  \* the live Jungle object
    stack,      \* the call stack of max_alpha_beta / min_alpha_beta, innermost last
    ret,        \* <<>> or << the result the innermost finished call returned >>
    pc,         \* where the caller of the search is
    mov, ci, max_wygr, max_move,  \* Player.loop: locals of the scoring loop
    scores,     \* Player.loop: the value of licz for each candidate scored so far
    kon,        \* Player.loop: what the last update on the live object returned
    rounds,     \* Player.loop: iterations of the while loop completed
    pre,        \* the live object when the running (or last) root call was made
    calls,      \* the results of the root calls made so far, in order
    met,        \* some node was terminal in a root call made since pre was taken
    said,       \* <<>> or <<player, move string>>: the last call of update by Submit
    roll,       \* Player.loop: the object the running call of sym was given, or None
    rep,        \* Player.loop: j of for j in range(LICZ_ROZGR)
    licz        \* Player.loop: the rollouts of the candidate that returned True

jungle == <<board, pieces, curplayer, peace_counter, winner>>
search == <<stack, ret>>
looplocals == <<mov, ci, max_wygr, max_move, scores, kon, rounds>>
vars == <<board, pieces, curplayer, peace_counter, winner, stack, ret, pc,
          mov, ci, max_wygr, max_move, scores, kon, rounds, pre, calls, met, said,
          roll, rep, licz>>
\* the scoring loop's call of sym
callsym == <<roll, rep, licz>>

Live == MkJungle(board, pieces, curplayer, peace_counter, winner)

SetLive(J) ==
    /\ board' = J.board
    /\ pieces' = J.pieces
    /\ curplayer' = J.curplayer
    /\ peace_counter' = J.peace_counter
    /\ winner' = J.winner

\* ------------------------------------------------------------ objects
\* A Jungle object holds references to its containers: the nine lists that are
\* the rows of board and the two inner dicts of pieces.  A reference is
\* <<owner, kind, index>>: the containers self.game was built with are owned by
\* "game" and their contents are board[y] and pieces[p]; the containers a copy
\* was built with are owned by "copy".  curplayer, peace_counter and winner are
\* attributes of the object itself.
self_game ==
    [id |-> "game",
     rows |-> [y \in 0..(MY - 1) |-> <<"game", "row", y>>],
     dicts |-> [p \in 0..1 |-> <<"game", "dict", p>>],
     curplayer |-> curplayer, peace_counter |-> peace_counter, winner |-> winner]

\* An object o together with the contents of the containers owned by "copy"
Object(o, rws, dcts) == [obj |-> o, rows |-> rws, dicts |-> dcts]

\* The list a reference to a row leads to, and the dict a reference to a dict
\* leads to, as seen from the object R
Row(R, a) == IF a[1] = "game" THEN board[a[3]] ELSE R.rows[a[3]]
Dict(R, a) == IF a[1] = "game" THEN pieces[a[3]] ELSE R.dicts[a[3]]

\* copy.copy(self.game): a new object whose attributes refer to the containers
\* of the object copied
copy_copy(o) ==
    Object([o EXCEPT !.id = "copy"],
           [y \in 0..(MY - 1) |-> board[y]], [p \in 0..1 |-> pieces[p]])

\* copy.deepcopy(self.game): a new object with new containers that hold what
\* the containers of the object copied hold
deepcopy(o) ==
    Object([o EXCEPT !.id = "copy",
                     !.rows = [y \in 0..(MY - 1) |-> <<"copy", "row", y>>],
                     !.dicts = [p \in 0..1 |-> <<"copy", "dict", p>>]],
           [y \in 0..(MY - 1) |-> board[y]], [p \in 0..1 |-> pieces[p]])

\* J.board, J.pieces, J.curplayer, J.peace_counter and J.winner as the methods
\* of Jungle read them on the object R
Value(R) ==
    MkJungle([y \in 0..(MY - 1) |-> Row(R, R.obj.rows[y])],
             [p \in 0..1 |-> Dict(R, R.obj.dicts[p])],
             IF R.obj.id = "game" THEN curplayer ELSE R.obj.curplayer,
             IF R.obj.id = "game" THEN peace_counter ELSE R.obj.peace_counter,
             IF R.obj.id = "game" THEN winner ELSE R.obj.winner)

\* The object R after the methods of Jungle have made V of what they read on
\* it: self.board[y][x] = ..., self.pieces[pl][pc] = ... and del
\* self.pieces[pl][pc] change the container the reference leads to,
\* self.curplayer = ..., self.peace_counter = ... and self.winner = ... rebind
\* an attribute of the object
Written(R, V) ==
    Object([R.obj EXCEPT !.curplayer = V.curplayer,
                         !.peace_counter = V.peace_counter,
                         !.winner = V.winner],
           [y \in 0..(MY - 1) |->
               IF R.obj.rows[y][1] = "copy" THEN V.board[y] ELSE R.rows[y]],
           [p \in 0..1 |->
               IF R.obj.dicts[p][1] = "copy" THEN V.pieces[p] ELSE R.dicts[p]])

\* self.game after the same writes: a container of self.game that R refers to
\* has changed, an attribute only if R is self.game itself
GameAfter(R, V) ==
    MkJungle([y \in 0..(MY - 1) |->
                 IF R.obj.rows[y][1] = "game" THEN V.board[y] ELSE board[y]],
             [p \in 0..1 |->
                 IF R.obj.dicts[p][1] = "game" THEN V.pieces[p] ELSE pieces[p]],
             IF R.obj.id = "game" THEN V.curplayer ELSE curplayer,
             IF R.obj.id = "game" THEN V.peace_counter ELSE peace_counter,
             IF R.obj.id = "game" THEN V.winner ELSE winner)

\* The methods of Jungle called on J, the object of the running call of sym,
\* have made V of it
Store(V) ==
    /\ roll' = Written(roll, V)
    /\ SetLive(GameAfter(roll, V))

\* ---------------------------------------------------------- the search
NoSave == [pl |-> 0, pc |-> 0, pl2 |-> 0, pc2 |-> 0, p_c |-> 0, zbicie |-> 0]

\* A call max_alpha_beta(alpha, beta, depth, _) or min_alpha_beta(...) that has
\* not run its first statement yet
Call(kind, alpha, beta, depth) ==
    [kind |-> kind, alpha |-> alpha, beta |-> beta, depth |-> depth, st |-> "enter",
     moves |-> <<>>, i |-> 0, value |-> 0, best |-> None, sv |-> NoSave]

Top == stack[Len(stack)]
Pop == SubSeq(stack, 1, Len(stack) - 1)
SetTop(f) == [stack EXCEPT ![Len(stack)] = f]
Running(kind, st) == stack # <<>> /\ Top.kind = kind /\ Top.st = st
Other(kind) == IF kind = "max" THEN "min" ELSE "max"
PlayerOf(kind) == IF kind = "max" THEN 0 ELSE 1
Sentinel(kind) == IF kind = "max" THEN -inf ELSE inf

\* The head of a call, up to the for loop: the terminal test, the depth cutoff,
\* and the choice between the for loop and the pass branch
Enter(kind) ==
    /\ Running(kind, "enter")
    /\ LET player == PlayerOf(kind)
           m == moves(board, pieces, player)
           v == victory(Live, player)
       IN IF v.ret
          THEN /\ SetLive(v.J)
               /\ ret' = << utility(v.J, player) >>
               /\ stack' = Pop
          ELSE IF cut_off_tests(Top.depth)
          THEN /\ ret' = << Result(heur(Live), ZeroMove) >>
               /\ stack' = Pop
               /\ UNCHANGED jungle
          ELSE IF m # << None >>
          THEN /\ stack' = SetTop([Top EXCEPT !.st = "loop", !.value = Sentinel(kind),
                                              !.moves = m, !.i = 1])
               /\ UNCHANGED <<jungle, ret>>
          ELSE /\ stack' = Append(SetTop([Top EXCEPT !.st = "passwait",
                                                     !.value = Sentinel(kind)]),
                                  Call(Other(kind), Top.alpha, Top.beta, Top.depth + 1))
               /\ UNCHANGED <<jungle, ret>>
    /\ met' = (met \/ victory(Live, PlayerOf(kind)).ret)
    /\ UNCHANGED <<pc, looplocals, pre, calls>>
    /\ UNCHANGED <<said, callsym>>

\* One iteration of the for loop, up to the recursive call: the affect step
Apply(kind) ==
    /\ Running(kind, "loop")
    /\ Top.i <= Len(Top.moves)
    /\ LET r == affect(Live, Top.moves[Top.i])
       IN /\ SetLive(r.J)
          /\ stack' = Append(SetTop([Top EXCEPT !.st = "wait", !.sv = r.sv]),
                             Call(Other(kind), Top.alpha, Top.beta, Top.depth + 1))
    /\ UNCHANGED <<ret, pc, looplocals, pre, met, calls>>
    /\ UNCHANGED <<said, callsym>>

Better(kind, m, value) == IF kind = "max" THEN m > value ELSE m < value
\* value >= beta in max_alpha_beta, minv <= alpha in min_alpha_beta
Cutoff(kind, value, alpha, beta) == IF kind = "max" THEN value >= beta ELSE value <= alpha

\* The rest of the iteration once the recursive call has returned: the running
\* best, the undo step, the cutoff and the window update
Undo(kind) ==
    /\ stack # <<>> /\ Top.kind = kind /\ Top.st \in {"wait", "passwait"}
    /\ ret # <<>>
    /\ LET m == ret[1].value
           improved == Better(kind, m, Top.value)
           value == IF improved THEN m ELSE Top.value
           best == IF improved /\ Top.st = "wait" THEN Top.moves[Top.i] ELSE Top.best
           alpha == IF kind = "max" /\ value > Top.alpha THEN value ELSE Top.alpha
           beta == IF kind = "min" /\ value < Top.beta THEN value ELSE Top.beta
       IN /\ IF Top.st = "wait"
             THEN SetLive(undo(Live, Top.moves[Top.i], Top.sv))
             ELSE UNCHANGED jungle
          /\ IF Cutoff(kind, value, Top.alpha, Top.beta) \/ Top.st = "passwait"
             THEN /\ ret' = << Result(value, best) >>
                  /\ stack' = Pop
             ELSE /\ ret' = <<>>
                  /\ stack' = SetTop([Top EXCEPT !.st = "loop", !.value = value,
                                                 !.best = best, !.alpha = alpha,
                                                 !.beta = beta, !.i = Top.i + 1])
    /\ UNCHANGED <<pc, looplocals, pre, met, calls>>
    /\ UNCHANGED <<said, callsym>>

\* The for loop has run out of moves: the final return
Exit(kind) ==
    /\ Running(kind, "loop")
    /\ Top.i > Len(Top.moves)
    /\ ret' = << Result(Top.value, Top.best) >>
    /\ stack' = Pop
    /\ UNCHANGED <<jungle, pc, looplocals, pre, met, calls>>
    /\ UNCHANGED <<said, callsym>>

MaxEnter == Enter("max")
MaxApply == Apply("max")
MaxUndo == Undo("max")
MaxExit == Exit("max")
MinEnter == Enter("min")
MinApply == Apply("min")
MinUndo == Undo("min")
MinExit == Exit("min")

SearchStep ==
    \/ MaxEnter \/ MaxApply \/ MaxUndo \/ MaxExit
    \/ MinEnter \/ MinApply \/ MinUndo \/ MinExit

\* ------------------------------------------------------- Player.loop
\* What sym(copy.deepcopy(self.game), move) can return.  Its first update decides
\* the game or not; after that both sides draw their moves with random.choice
\* until an update ends the game, and the outcome of that random play is a
\* nondeterministic choice.
sym(J, move) ==
    LET u == update([J EXCEPT !.curplayer = 1], 1, MoveString(move))
    IN IF u.kon # KonNone THEN {u.kon = 1} ELSE BOOLEAN

\* What J is after J.curplayer = 1 and sym's first update, as the methods of
\* Jungle read it
sym_first(J, move) == update([J EXCEPT !.curplayer = 1], 1, MoveString(move)).J

\* The values licz can have after LICZ_ROZGR calls of sym for one candidate
LiczValues(J, move) ==
    {Cardinality({j \in 1..LICZ_ROZGR : f[j]}) : f \in [1..LICZ_ROZGR -> sym(J, move)]}

\* The root call max_alpha_beta(-inf, inf, 0, True) on the live object
CallRoot ==
    /\ stack' = << Call("max", -inf, inf, 0) >>
    /\ ret' = <<>>

\* while True: mov = self.game.moves(1); max_wygr = -1; max_move = []
LoopTop ==
    /\ pc = "top"
    /\ rounds < MaxRounds
    /\ mov' = moves(board, pieces, 1)
    /\ max_wygr' = -1
    /\ max_move' = <<>>
    /\ scores' = <<>>
    /\ ci' = 1
    /\ pc' = "score"
    /\ UNCHANGED <<jungle, search, kon, rounds, pre, met, calls>>
    /\ UNCHANGED <<said, callsym>>

\* for i in mov: one iteration, the LICZ_ROZGR rollouts included.  Of what the
\* rollouts write on their argument only the first update is followed here;
\* ScoreCall, SymFirst, SymAgent, SymOpponent and ScoreNext follow them whole.
LoopScore ==
    /\ pc = "score"
    /\ ci <= Len(mov)
    /\ LET J == deepcopy(self_game)
       IN /\ \E n \in LiczValues(Value(J), mov[ci]) :
                /\ scores' = Append(scores, n)
                /\ IF max_wygr <= n
                   THEN /\ max_wygr' = n
                        /\ max_move' = Append(max_move, mov[ci])
                   ELSE UNCHANGED <<max_wygr, max_move>>
          /\ SetLive(GameAfter(J, sym_first(Value(J), mov[ci])))
    /\ ci' = ci + 1
    /\ UNCHANGED <<search, pc, mov, kon, rounds, pre, met, calls>>
    /\ UNCHANGED <<said, callsym>>

\* random.choice(max_move), the update for player 1, and either the return or the
\* call of the search; random.choice raises IndexError on an empty list
LoopChoose ==
    /\ pc = "score"
    /\ ci > Len(mov)
    /\ IF max_move = <<>>
       THEN /\ pc' = "IndexError"
            /\ UNCHANGED <<jungle, search, kon, pre, met>>
       ELSE \E k \in 1..Len(max_move) :
              LET u == update(Live, 1, MoveString(max_move[k]))
              IN /\ SetLive(u.J)
                 /\ kon' = u.kon
                 /\ IF u.raised
                    THEN pc' = "WrongMove" /\ UNCHANGED <<search, pre, met>>
                    ELSE IF u.kon # KonNone
                    THEN pc' = (IF u.kon = 1 THEN "returned True" ELSE "returned False")
                         /\ UNCHANGED <<search, pre, met>>
                    ELSE pc' = "search" /\ CallRoot /\ pre' = u.J /\ met' = FALSE
    \* nothing reads the locals of the scoring loop again before the loop top
    \* overwrites them
    /\ mov' = <<>> /\ ci' = 0 /\ max_wygr' = -1 /\ max_move' = <<>> /\ scores' = <<>>
    /\ UNCHANGED <<rounds, calls>>
    /\ UNCHANGED <<said, callsym>>

\* The search has returned: if aa != None: self.game.update(0, move_string, "gl0"),
\* whose result is dropped, and the next iteration
LoopAnswer ==
    /\ pc = "search"
    /\ stack = <<>> /\ ret # <<>>
    /\ LET r == ret[1]
       IN IF r.move # None
          THEN LET u == update(Live, 0, MoveString(r.move))
               IN /\ SetLive(u.J)
                  /\ kon' = u.kon
                  /\ pc' = IF u.raised THEN "WrongMove" ELSE "top"
          ELSE /\ pc' = "top"
               /\ UNCHANGED <<jungle, kon>>
    /\ ret' = <<>>
    /\ calls' = << ret[1] >>
    /\ rounds' = rounds + 1
    /\ UNCHANGED <<stack, mov, ci, max_wygr, max_move, scores, pre, met>>
    /\ UNCHANGED <<said, callsym>>

\* -------------------------------------- the search called twice in a row
FirstCall ==
    /\ pc = "start"
    /\ pc' = "call"
    /\ CallRoot
    /\ pre' = Live
    /\ met' = FALSE
    /\ UNCHANGED <<jungle, looplocals, calls>>
    /\ UNCHANGED <<said, callsym>>

\* A root call has returned; after the first, the same call is made again
RootReturn ==
    /\ pc = "call"
    /\ stack = <<>> /\ ret # <<>>
    /\ calls' = Append(calls, ret[1])
    /\ IF Len(calls) + 1 < RootCalls
       THEN /\ CallRoot
            /\ pc' = "call"
       ELSE /\ ret' = <<>>
            /\ stack' = <<>>
            /\ pc' = "play"
    /\ UNCHANGED <<jungle, looplocals, pre, met>>
    /\ UNCHANGED <<said, callsym>>

\* A move of the side to move, made through update as Player.sym makes it; a
\* side without a legal move passes with do_move(None)
Play ==
    /\ pc = "play"
    /\ rounds < MaxPlies
    /\ kon = KonNone
    /\ LET player == curplayer
           ms == moves(board, pieces, player)
       IN IF ms = <<>>
          THEN /\ SetLive(do_move(Live, None))
               /\ UNCHANGED kon
          ELSE \E i \in 1..Len(ms) :
                 LET u == update(Live, player, MoveString(ms[i]))
                 IN /\ SetLive(u.J)
                    /\ kon' = u.kon
    /\ rounds' = rounds + 1
    /\ UNCHANGED <<search, pc, mov, ci, max_wygr, max_move, scores, pre, met, calls>>
    /\ UNCHANGED <<said, callsym>>

\* The steps of a piece onto a cell beside it that holds a piece of the other
\* player, whether can_beat allows them or not
Strikes(J) ==
    {<<a[2][1], a[2][2], b[2][1], b[2][2]>> :
        <<a, b>> \in {<<a, b>> \in
            ({J.pieces[0][i] : i \in 1..Len(J.pieces[0])}
                \union {J.pieces[1][i] : i \in 1..Len(J.pieces[1])})
            \X ({J.pieces[0][i] : i \in 1..Len(J.pieces[0])}
                \union {J.pieces[1][i] : i \in 1..Len(J.pieces[1])}) :
            /\ Abs(a[2][1] - b[2][1]) + Abs(a[2][2] - b[2][2]) = 1
            /\ J.board[a[2][2]][a[2][1]][1] # J.board[b[2][2]][b[2][1]][1]}}

\* The move strings handed to update: the pass, every legal move of either
\* player, every step onto a piece of the other player, a step onto the same
\* cell and a step of each player into its own den
PassString == <<-1, -1, -1, -1>>
SubmitStrings(J) ==
    LET m0 == moves(J.board, J.pieces, 0)
        m1 == moves(J.board, J.pieces, 1)
    IN {PassString, <<0, 0, 0, 0>>, <<3, 7, 3, 8>>, <<3, 1, 3, 0>>}
          \union {MoveString(m0[i]) : i \in 1..Len(m0)}
          \union {MoveString(m1[i]) : i \in 1..Len(m1)}
          \union Strikes(J)

\* update(player, move_string, mes) called from outside with any player and any
\* string of four integers, on a position nothing has been played on yet: the
\* move is made or WrongMove is raised
Submit ==
    /\ pc = "play"
    /\ rounds = 0
    /\ kon = KonNone
    /\ \E player \in 0..1 : \E s \in SubmitStrings(Live) :
          LET u == update(Live, player, s)
          IN /\ SetLive(u.J)
             /\ kon' = u.kon
             /\ pc' = IF u.raised THEN "WrongMove" ELSE "submitted"
             /\ said' = <<player, s>>
    /\ UNCHANGED <<rounds, search, mov, ci, max_wygr, max_move, scores, pre, met, calls>>
    /\ UNCHANGED callsym

\* ------------------------------------------------------- Player.sym
\* What sym returns for the value kon of an update that ended the game
SymReturn(k) == IF k = 1 THEN "sym True" ELSE "sym False"

\* self.sym(copy.deepcopy(self.game), i): the argument is built and sym is
\* entered
ScoreCall ==
    /\ pc = "score"
    /\ ci <= Len(mov)
    /\ roll' = deepcopy(self_game)
    /\ pc' = "sym"
    /\ UNCHANGED <<jungle, search, looplocals, pre, met, calls, said, rep, licz>>

\* sym(J, move) up to its while loop: the candidate move is played on J for
\* player 1
SymFirst ==
    /\ pc = "sym"
    /\ LET J == Value(roll)
           u == update([J EXCEPT !.curplayer = 1], 1, MoveString(mov[ci]))
       IN /\ Store(u.J)
          /\ kon' = u.kon
          /\ pc' = IF u.raised THEN "WrongMove"
                   ELSE IF u.kon # KonNone THEN SymReturn(u.kon) ELSE "sym0"
          /\ said' = <<1, MoveString(mov[ci])>>
    /\ UNCHANGED <<search, mov, ci, max_wygr, max_move, scores, rounds, pre, met, calls>>
    /\ UNCHANGED <<rep, licz>>

\* One half of an iteration of sym's while loop: the player moves on J with
\* random.choice through update, or passes with do_move(None)
SymTurn(player) ==
    /\ pc = (IF player = 0 THEN "sym0" ELSE "sym1")
    /\ LET J == IF player = 0 THEN [Value(roll) EXCEPT !.curplayer = 0] ELSE Value(roll)
           ms == moves(J.board, J.pieces, player)
           next == IF player = 0 THEN "sym1" ELSE "sym0"
       IN IF ms # <<>>
          THEN \E i \in 1..Len(ms) :
                  LET u == update(J, player, MoveString(ms[i]))
                  IN /\ Store(u.J)
                     /\ kon' = u.kon
                     /\ pc' = IF u.kon # KonNone THEN SymReturn(u.kon) ELSE next
                     /\ said' = <<player, MoveString(ms[i])>>
          ELSE /\ Store(do_move(J, None))
               /\ pc' = next
               /\ said' = <<player, PassString>>
               /\ UNCHANGED kon
    /\ UNCHANGED <<search, mov, ci, max_wygr, max_move, scores, rounds, pre, met, calls>>
    /\ UNCHANGED <<rep, licz>>

SymAgent == SymTurn(0)
SymOpponent == SymTurn(1)

\* sym has returned: if self.sym(...): licz += 1, and the next j; after the
\* last j, if max_wygr <= licz: max_wygr = licz; max_move.append(i), and the
\* next i.  The argument and sym's locals are gone.
ScoreNext ==
    /\ pc \in {"sym True", "sym False"}
    /\ LET n == IF pc = "sym True" THEN licz + 1 ELSE licz
       IN IF rep + 1 < LICZ_ROZGR
          THEN /\ rep' = rep + 1
               /\ licz' = n
               /\ UNCHANGED <<ci, max_wygr, max_move, scores>>
          ELSE /\ rep' = 0
               /\ licz' = 0
               /\ ci' = ci + 1
               /\ scores' = Append(scores, n)
               /\ IF max_wygr <= n
                  THEN /\ max_wygr' = n
                       /\ max_move' = Append(max_move, mov[ci])
                  ELSE UNCHANGED <<max_wygr, max_move>>
    /\ roll' = None
    /\ kon' = KonNone
    /\ said' = <<>>
    /\ pc' = "score"
    /\ UNCHANGED <<jungle, search, mov, rounds, pre, met, calls>>

\* ------------------------------------------- one attack on a bare board
\* Cells a defender is put on: the six traps, a land cell and a river cell
BeatTargets == traps \union {<<0, 4>>, <<1, 4>>}

\* The cells moves() lets a piece of the player and the rank step onto: any
\* cell of the board but the player's own den, the river for the rat only
CanStand(player, rank, pos) ==
    /\ pos \in Cells
    /\ pos # dens[player]
    /\ pos \in ponds => rank = rat

\* Player 0's only piece moves onto the cell of player 1's only piece, next to
\* it, through update: moves() asks can_beat whether it may
Attack ==
    /\ pc = "beat"
    /\ LET u == update(Live, 0, MoveString(<<pieces[0][1][2], pieces[1][1][2]>>))
       IN /\ SetLive(u.J)
          /\ kon' = u.kon
          /\ pc' = IF u.raised THEN "WrongMove" ELSE "beaten"
    /\ UNCHANGED <<search, mov, ci, max_wygr, max_move, scores, rounds, pre, met, calls>>
    /\ UNCHANGED <<said, callsym>>

\* ------------------------------------------------------- specifications
\* The program at the point p with the live game J, the locals of the scoring
\* loop apart
InitGame(J, p) ==
    /\ board = J.board
    /\ pieces = J.pieces
    /\ curplayer = J.curplayer
    /\ peace_counter = J.peace_counter
    /\ winner = J.winner
    /\ stack = <<>>
    /\ ret = <<>>
    /\ pc = p
    /\ kon = KonNone
    /\ rounds = 0
    /\ pre = J
    /\ calls = <<>>
    /\ met = FALSE
    /\ said = <<>>

\* The same with no candidate scored and no call of sym running
InitAt(J, p) ==
    /\ InitGame(J, p)
    /\ mov = <<>>
    /\ ci = 0
    /\ max_wygr = -1
    /\ max_move = <<>>
    /\ scores = <<>>
    /\ roll = None
    /\ rep = 0
    /\ licz = 0

\* The scoring loop on the live game G at its last candidate, in repetition r,
\* every call of sym before having returned won: at the point p, the argument
\* of the running call, if there is one, being R
InitInside(G, won, r, p, R) ==
    /\ InitGame(G, p)
    /\ mov = moves(G.board, G.pieces, 1)
    /\ ci = Len(mov)
    /\ max_wygr = (IF won THEN LICZ_ROZGR ELSE 0)
    /\ max_move = SubSeq(mov, 1, Len(mov) - 1)
    /\ scores = [n \in 1..(Len(mov) - 1) |-> IF won THEN LICZ_ROZGR ELSE 0]
    /\ rep = r
    /\ licz = (IF won THEN r ELSE 0)
    /\ roll = R

\* Player.loop on a position of the game
Init == \E J \in LoopPositions : InitAt(J, "top")
Next == LoopTop \/ LoopScore \/ LoopChoose \/ LoopAnswer \/ SearchStep
Spec == Init /\ [][Next]_vars

\* The search called RootCalls times in a row on a position and moves played
\* after it; from the starting layout, moves only
InitSearch ==
    \/ \E J \in SearchPositions : InitAt(J, "start")
    \/ InitAt(NewJungle, "play")
NextSearch == FirstCall \/ RootReturn \/ SearchStep \/ Play
SpecSearch == InitSearch /\ [][NextSearch]_vars

\* Moves played through update, by the side to move or by any caller, from the
\* starting layout and from the positions of the game
PlayPositions ==
    {NewJungle, ElephantAtRat, RatInRiver} \union SearchPositions \union LoopPositions
       \union DenPositions
InitPlay == \E J \in PlayPositions : InitAt(J, "play")
NextPlay == Play \/ Submit
SpecPlay == InitPlay /\ [][NextPlay]_vars

\* The flow of control of the scoring loop and of sym: from each point the next
\* one is reached, through the loop top, a call of sym, an update or a pass in
\* sym, or sym's return
SymAdvance ==
    \/ pc = "top" /\ pc' = "score"
    \/ pc = "score" /\ ci <= Len(mov) /\ pc' = "sym"
    \/ pc = "sym" /\ pc' \in {"sym0", "sym True", "sym False"}
    \/ pc = "sym0" /\ pc' \in {"sym1", "sym True", "sym False"}
    \/ pc = "sym1" /\ pc' \in {"sym0", "sym True", "sym False"}
    \/ pc \in {"sym True", "sym False"} /\ pc' = "score"

\* The scoring loop of Player.loop with its rollouts followed step by step: from
\* the loop top on LionDuelLate, from the last two rollouts on LionDuel, and
\* from inside the last rollout on Cornered.  A sequential program takes its
\* next step, hence the weak fairness of the flow of control.
InitRollout ==
    \/ InitAt(LionDuelLate, "top")
    \/ InitInside(LionDuel, FALSE, LICZ_ROZGR - 2, "score", None)
    \/ InitInside(Cornered, TRUE, LICZ_ROZGR - 1, "sym1",
                  Written(deepcopy(self_game), CorneredLate))
NextRollout == LoopTop \/ ScoreCall \/ SymFirst \/ SymAgent \/ SymOpponent \/ ScoreNext
SpecRollout == InitRollout /\ [][NextRollout]_vars /\ WF_pc(SymAdvance)

\* can_beat on every pair of ranks, the defender on a cell of BeatTargets and the
\* attacker beside it
InitBeat ==
    \E p1, p2 \in 0..7 : \E pos2 \in BeatTargets : \E d \in 1..Len(dirs) :
       LET pos1 == <<pos2[1] - dirs[d][1], pos2[2] - dirs[d][2]>>
       IN /\ CanStand(0, p1, pos1) /\ CanStand(1, p2, pos2)
          /\ InitAt(Position(<< <<p1, pos1>> >>, << <<p2, pos2>> >>, 0, 0, NoWinner),
                    "beat")
NextBeat == Attack
SpecBeat == InitBeat /\ [][NextBeat]_vars

\* ------------------------------------------------------------- claims
InSearch == stack # <<>>
IsCapture(m) == board[m[2][2]][m[2][1]] # None

\* Equality of two Jungle objects in board, index (as Python compares dicts: by
\* their items, whatever their order), passivity counter and result flag
SameState(J1, J2) ==
    /\ J1.board = J2.board
    /\ \A p \in 0..1 : AsMap(J1.pieces[p]) = AsMap(J2.pieces[p])
    /\ J1.peace_counter = J2.peace_counter
    /\ J1.winner = J2.winner

RoundTrip(J, m) == LET r == affect(J, m) IN undo(r.J, m, r.sv)

\* C1: in every position reached in play or entered by the search, applying any
\* legal move of either player with the search's affect step and undoing it at
\* once gives back the same board, index contents, passivity counter and winner.
C1_ApplyUndoRoundTrip ==
    (~InSearch \/ Top.st = "enter") =>
       \A player \in 0..1 :
          LET ms == moves(board, pieces, player)
          IN \A i \in 1..Len(ms) : SameState(RoundTrip(Live, ms[i]), Live)

\* a state inside the search, below the root, with a capture and a quiet move
C1_Witness ==
    /\ Len(stack) >= 2
    /\ Top.st = "enter"
    /\ peace_counter > 0
    /\ \E player \in 0..1 :
          LET ms == moves(board, pieces, player)
          IN /\ \E i \in 1..Len(ms) : IsCapture(ms[i])
             /\ \E i \in 1..Len(ms) : ~IsCapture(ms[i])

\* C2: the board and the index agree: board[y][x] = (owner, rank) exactly when
\* pieces[owner][rank] = (x, y); an owner has at most one entry per rank and no
\* two entries share a cell.
C2_BoardIndexConsistent ==
    /\ \A y \in 0..(MY - 1), x \in 0..(MX - 1) :
          board[y][x] # None =>
             /\ Has(pieces[board[y][x][1]], board[y][x][2])
             /\ Get(pieces[board[y][x][1]], board[y][x][2]) = <<x, y>>
    /\ \A owner \in 0..1 : \A i \in 1..Len(pieces[owner]) :
          board[pieces[owner][i][2][2]][pieces[owner][i][2][1]]
             = <<owner, pieces[owner][i][1]>>
    /\ \A owner \in 0..1 : \A i, j \in 1..Len(pieces[owner]) :
          pieces[owner][i][1] = pieces[owner][j][1] => i = j
    /\ \A o1, o2 \in 0..1 : \A i \in 1..Len(pieces[o1]), j \in 1..Len(pieces[o2]) :
          pieces[o1][i][2] = pieces[o2][j][2] => (o1 = o2 /\ i = j)

\* The two ranks are in both index sequences, in one order in the first and in the
\* other order in the second
Swapped(d1, d2, r, q) ==
    \E i, j \in 1..Len(d1) : \E k, l \in 1..Len(d2) :
       /\ d1[i][1] = r /\ d1[j][1] = q /\ d2[k][1] = r /\ d2[l][1] = q
       /\ i < j /\ l < k

\* a capture made by do_move, after searches that applied and undid captures:
\* an undone capture puts the captured rank back at the end of its owner's index
C2_Witness ==
    /\ pc = "play"
    /\ rounds > 0
    /\ peace_counter = 0
    /\ Len(pieces[0]) + Len(pieces[1]) < Len(pre.pieces[0]) + Len(pre.pieces[1])
    /\ \E p \in 0..1 : \E r, q \in 0..7 : Swapped(pre.pieces[p], pieces[p], r, q)

\* C3: when a root call max_alpha_beta(-inf, inf, 0, ...) returns, the board,
\* the index, the passivity counter, the winner and the turn indicator are what
\* they were when it was called.
C3_SearchSideEffectFree ==
    (calls # <<>> /\ stack = <<>> /\ rounds = 0)
       => (SameState(Live, pre) /\ curplayer = pre.curplayer)

\* C4: an attacker that is not in the river beats a defender on a trap cell
\* whatever the two ranks are, the elephant attacking the rat included.
C4_TrapNeutralization ==
    pc = "beat" =>
       LET p1 == pieces[0][1][1]
           pos1 == pieces[0][1][2]
           p2 == pieces[1][1][1]
           pos2 == pieces[1][1][2]
       IN (pos1 \notin ponds /\ pos2 \in traps) => can_beat(p1, p2, pos1, pos2)

\* The passivity draw: the counter has run out and no rank is held by one side only
PassivityDraw(J, player) ==
    /\ Len(J.pieces[1 - player]) # 0
    /\ J.board[dens[1 - player][2]][dens[1 - player][1]] = None
    /\ J.peace_counter >= MAXIMAL_PASSIVE
    /\ \A r \in 0..7 : Has(J.pieces[0], r) <=> Has(J.pieces[1], r)

\* C5: at a terminal node, max or min, utility is +inf when the recorded winner
\* is player 0, -inf when it is player 1, and 0 for the passivity draw.
C5_TerminalUtilitySign ==
    \A kind \in {"max", "min"} :
       (Running(kind, "enter") /\ victory(Live, PlayerOf(kind)).ret)
          => LET J == victory(Live, PlayerOf(kind)).J
             IN utility(J, PlayerOf(kind)).value =
                   (IF PassivityDraw(J, PlayerOf(kind)) THEN 0
                    ELSE IF J.winner = 0 THEN inf ELSE -inf)

\* A call about to run at a node that is not terminal and is below the depth
\* cutoff, where the side to move has a piece but no legal move
NoMoveNode(kind) ==
    /\ Running(kind, "enter")
    /\ ~victory(Live, PlayerOf(kind)).ret
    /\ ~cut_off_tests(Top.depth)
    /\ pieces[PlayerOf(kind)] # <<>>
    /\ moves(board, pieces, PlayerOf(kind)) = <<>>

\* C6: at a node that is not terminal, below the depth cutoff, where the side to
\* move has no legal move, the search leaves the board alone and calls the other
\* side's search one ply deeper instead of returning.
C6_PassInsideSearch ==
    [][\A kind \in {"max", "min"} :
          NoMoveNode(kind) =>
             /\ board' = board
             /\ Len(stack') = Len(stack) + 1
             /\ stack'[Len(stack')].kind = Other(kind)
             /\ stack'[Len(stack')].depth = Top.depth + 1]_vars

\* The win count of a candidate of the scoring loop that has been scored
LiczOf(m) == scores[CHOOSE i \in 1..Len(scores) : mov[i] = m]

\* C7: when the scoring loop is over, every move eligible for the random choice has
\* the highest win count of all of player 1's legal moves.
C7_RolloutMoveSelection ==
    (pc = "score" /\ ci > Len(mov)) =>
       \A k \in 1..Len(max_move) : \A i \in 1..Len(scores) :
          LiczOf(max_move[k]) >= scores[i]

\* C8: the loop goes on only while no update on the live object has reported a
\* result: once one has, the loop has returned.
C8_LoopStopsAtTerminal ==
    kon # KonNone => pc \in {"returned True", "returned False"}

\* C9: two root calls in a row on the same position, neither meeting a terminal
\* position, return the same value and the same move, and the index is
\* enumerated in the same order in both.
C9_SearchDeterministic ==
    (Len(calls) >= 2 /\ rounds = 0 /\ ~met)
       => (calls[1] = calls[2] /\ pieces = pre.pieces)

\* The winner the passivity rule names: the holder of the highest rank that one
\* player holds and the other does not, player 0 when there is no such rank
OneSided(pcs) == {r \in 0..7 : Has(pcs[0], r) # Has(pcs[1], r)}
PassivityWinner(pcs) ==
    IF OneSided(pcs) = {} THEN 0
    ELSE LET top == CHOOSE r \in OneSided(pcs) : \A q \in OneSided(pcs) : q <= r
         IN IF Has(pcs[0], top) THEN 0 ELSE 1

PassivityOnly(player) ==
    /\ peace_counter >= MAXIMAL_PASSIVE
    /\ Len(pieces[1 - player]) # 0
    /\ board[dens[1 - player][2]][dens[1 - player][1]] = None

\* C10: with the passivity counter at 30 or more and neither the elimination nor
\* the den condition firing, victory returns true and sets the winner to the
\* holder of the highest one-sided rank, to player 0 when there is none.
C10_PassivityResolution ==
    \A player \in 0..1 :
       PassivityOnly(player)
          => /\ victory(Live, player).ret
             /\ victory(Live, player).J.winner = PassivityWinner(pieces)

\* the counter has run out at a node of the search whose one-sided ranks are
\* split between the players, and victory has named the winner
C10_Witness ==
    /\ InSearch /\ Top.st = "wait" /\ ret # <<>>
    /\ PassivityOnly(0) /\ PassivityOnly(1)
    /\ \E r, q \in OneSided(pieces) : Has(pieces[0], r) /\ Has(pieces[1], q) /\ r < q
    /\ winner = 1

\* the counter has run out with every rank held by both players or by neither
C10_WitnessDraw ==
    /\ InSearch /\ Top.st = "wait" /\ ret # <<>>
    /\ PassivityOnly(0) /\ PassivityOnly(1)
    /\ OneSided(pieces) = {}
    /\ winner = 0

\* The move a string of four integers spells
Decoded(s) == << <<s[1], s[2]>>, <<s[3], s[4]>> >>

\* What the claim says update raises WrongMove on
WrongFor(J, player, s) ==
    LET ms == moves(J.board, J.pieces, player)
    IN \/ ms = <<>> /\ s # PassString
       \/ ms # <<>> /\ \A i \in 1..Len(ms) : ms[i] # Decoded(s)

\* The object after the move or the pass has been applied for the player
Applied(J, player, s) ==
    LET J0 == [J EXCEPT !.curplayer = player]
    IN victory(do_move(J0, IF s = PassString THEN None ELSE Decoded(s)), player).J

\* C11: in every position of play a move can follow, for either player and every string of four
\* integers, update raises WrongMove exactly when the player has no legal move
\* and the string is not the pass, or has legal moves and the string is not one
\* of them; in every other case the move or the pass is applied.
C11_MoveValidation ==
    (pc = "play" /\ rounds < MaxPlies) =>
       \A player \in 0..1 : \A s \in SubmitStrings(Live) :
          LET u == update(Live, player, s)
          IN /\ u.raised = WrongFor(Live, player, s)
             /\ ~u.raised => u.J = Applied(Live, player, s)

\* a pass was submitted for a player who has legal moves, and WrongMove was raised
C11_Witness ==
    /\ pc = "WrongMove"
    /\ said # <<>>
    /\ said[2] = PassString
    /\ moves(board, pieces, said[1]) # <<>>
    /\ kon = KonNone

\* a pass was submitted for a player without a legal move, and was applied
C11_WitnessPass ==
    /\ pc = "submitted"
    /\ said = <<0, PassString>>
    /\ curplayer = 1
    /\ AsMap(pieces[0]) = AsMap(pre.pieces[0])

\* a call of sym is running or has just returned: its argument exists
HasArgument == pc \in {"sym", "sym0", "sym1", "sym True", "sym False"}

\* the pieces an object's index holds
Material(J) == Len(J.pieces[0]) + Len(J.pieces[1])

\* C12: scoring the candidates, every call of sym for every candidate and every
\* repetition followed to its return, never changes the live game: board, index,
\* passivity counter, winner and turn indicator stay what they were at the loop
\* top, whatever sym plays on its argument.
C12_RolloutIsolation ==
    /\ [](Live = pre)
    /\ [][jungle' = jungle]_vars

\* a later repetition of a candidate has returned; on its argument pieces have
\* moved and one was captured, the counter and the turn differ from the live
\* game's, and the live game is the one the loop top saw
C12_Witness ==
    /\ pc \in {"sym True", "sym False"}
    /\ rep >= 1 /\ ci >= 2
    /\ Material(Value(roll)) < Material(Live)
    /\ Value(roll).board # board
    /\ Value(roll).peace_counter # peace_counter
    /\ Live = pre

\* The piece on a cell of the board, None on an empty cell
At(bd, pos) == bd[pos[2]][pos[1]]

\* a piece of the player stands on the den of the other player
OnDenOfOpponent(player) ==
    /\ At(board, dens[1 - player]) # None
    /\ At(board, dens[1 - player])[1] = player

\* C13: in every state where a piece of player 0 stands on player 1's den and
\* the passivity counter is below MAXIMAL_PASSIVE, victory called for player 0,
\* as update calls it after player 0's move, returns True and sets the winner
\* to player 0, however many pieces either player has left.
C13_DenCapture ==
    (OnDenOfOpponent(0) /\ peace_counter < MAXIMAL_PASSIVE) =>
       /\ victory(Live, 0).ret
       /\ victory(Live, 0).J.winner = 0

\* player 0 has stepped on player 1's den with player 1 holding six pieces or
\* more, and update has returned 2 * 0 - 1
C13_Witness ==
    /\ OnDenOfOpponent(0) /\ peace_counter < MAXIMAL_PASSIVE
    /\ Len(pieces[1]) >= 6 /\ Len(pieces[0]) >= 7
    /\ kon = -1 /\ winner = 0

\* The rank of the piece a move takes from its cell, and the cell beside a cell
RankAt(bd, pos) == At(bd, pos)[2]
Beside(pos1, pos2) == Abs(pos1[1] - pos2[1]) + Abs(pos1[2] - pos2[2]) = 1

\* the elephant of the player stands on a cell beside the rat of the other
\* player, the rat on land
ElephantMeetsRat(player) ==
    /\ Has(pieces[player], elephant) /\ Has(pieces[1 - player], rat)
    /\ Beside(Get(pieces[player], elephant), Get(pieces[1 - player], rat))
    /\ Get(pieces[1 - player], rat) \notin ponds

\* C14: can_beat(rat, elephant, pos1, pos2) is true for every pos1 on land and
\* every pos2, can_beat(elephant, rat, pos1, pos2) is false for every pos1 and
\* every pos2 on land, and in every state moves(player) holds no move of the
\* player's elephant onto the cell of the other player's rat.
C14_RatElephantException ==
    /\ (pc = "play" /\ rounds = 0) =>
          /\ \A pos1 \in Cells \ ponds : \A pos2 \in Cells :
                can_beat(rat, elephant, pos1, pos2)
          /\ \A pos1 \in Cells : \A pos2 \in Cells \ ponds :
                ~can_beat(elephant, rat, pos1, pos2)
    /\ \A player \in 0..1 :
          LET ms == moves(board, pieces, player)
          IN \A i \in 1..Len(ms) :
                ~ /\ RankAt(board, ms[i][1]) = elephant
                  /\ At(board, ms[i][2]) = <<1 - player, rat>>

\* an elephant stands beside the other player's rat on land, and the move onto
\* the rat's cell was refused
C14_Witness ==
    /\ ElephantMeetsRat(1)
    /\ pc = "WrongMove"
    /\ said = <<1, MoveString(<<Get(pieces[1], elephant), Get(pieces[0], rat)>>)>>

\* the rat on land has taken the elephant beside it
C14_WitnessRat ==
    /\ pc = "submitted" /\ said # <<>>
    /\ Has(pre.pieces[said[1]], rat) /\ Has(pre.pieces[1 - said[1]], elephant)
    /\ Decoded(said[2]) =
          <<Get(pre.pieces[said[1]], rat), Get(pre.pieces[1 - said[1]], elephant)>>
    /\ ~Has(pieces[1 - said[1]], elephant)
    /\ Get(pieces[said[1]], rat) = Get(pre.pieces[1 - said[1]], elephant)

\* C15: when the root call is made on a position that is not terminal for
\* player 0 and in which player 0 has a legal move, the move it returns is one
\* of moves(0); it returns no move only when player 0 has none.
C15_SearchReturnsMove ==
    (Len(calls) >= 1 /\ ~victory(pre, 0).ret) =>
       LET ms == moves(pre.board, pre.pieces, 0)
       IN /\ ms # <<>> => \E i \in 1..Len(ms) : calls[1].move = ms[i]
          /\ calls[1].move = None => ms = <<>>

\* a player has won: it has a piece on the den of the other player, or the
\* other player has no piece left
HasWon(player) == OnDenOfOpponent(player) \/ pieces[1 - player] = <<>>

\* C16: no node of the search, max or min, whose position either player has
\* already won goes on to its for loop with a list of moves to apply; such a
\* node returns from its terminal test.
C16_NoExpansionOfDecided ==
    (InSearch /\ Top.st = "loop" /\ Top.moves # <<>>) => ~(HasWon(0) \/ HasWon(1))

\* The leaps the tiger and the lion of a player stand before: the cell of the
\* piece and the step (dx, dy) of the leap, three cells along a row, four along
\* a column
Leaps(player) ==
    {<<pos, d>> \in Cells \X {<<3, 0>>, <<-3, 0>>, <<0, 4>>, <<0, -4>>} :
        /\ At(board, pos) # None
        /\ At(board, pos)[1] = player
        /\ At(board, pos)[2] \in {tiger, lion}
        /\ <<pos[1] + d[1] \div 3, pos[2] + d[2] \div 4>> \in ponds}

\* the rat of the other player is in the river and in the line of the leap
EnemyRatInLine(player, pos, dx, dy) ==
    /\ Has(pieces[1 - player], rat)
    /\ LET r == Get(pieces[1 - player], rat)
       IN /\ r \in ponds
          /\ \/ dy # 0 /\ pos[1] = r[1]
             \/ dx # 0 /\ pos[2] = r[2] /\ Abs(pos[1] - r[1]) <= 2
                       /\ Abs(pos[1] + dx - r[1]) <= 2

\* C17: rat_is_blocking rejects a leap of a player's tiger or lion exactly when
\* the rat of the other player is in the river and in the line of the leap; the
\* player's own rat does not block it.
C17_EnemyRatBlocksLeap ==
    \A player \in 0..1 : \A l \in Leaps(player) :
       rat_is_blocking(pieces, player, l[1], l[2][1], l[2][2])
          = EnemyRatInLine(player, l[1], l[2][1], l[2][2])

\* The board with no piece on it
EmptyBoard == [y \in 0..(MY - 1) |-> [x \in 0..(MX - 1) |-> None]]

\* The cells moves can send a piece of a rank to from a cell, with nothing else
\* on the board: no piece in the way and no rat in the river
Reach(player, p, pos) ==
    {m[2] : m \in {ms[1] : ms \in
        {move_in_dir(EmptyBoard, [q \in 0..1 |-> <<>>], player, p, pos, dirs[j]) : j \in 1..4}
            \ {<<>>}}}

\* C18: in every state each piece on a river cell is a rat and every move in
\* moves(player) of another piece, a leap of the tiger or the lion included,
\* ends on a cell of the board outside the river; and from no cell outside the
\* river can a piece other than the rat be sent off the board or into the river.
C18_OnlyRatsInWater ==
    /\ \A pos \in ponds : At(board, pos) # None => At(board, pos)[2] = rat
    /\ \A player \in 0..1 :
          LET ms == moves(board, pieces, player)
          IN \A i \in 1..Len(ms) :
                /\ ms[i][2] \in Cells
                /\ RankAt(board, ms[i][1]) # rat => ms[i][2] \notin ponds
    /\ (pc = "play" /\ rounds = 0) =>
          \A player \in 0..1 : \A p \in 0..7 :
             \A pos \in (IF p = rat THEN Cells ELSE Cells \ ponds) :
                \A c \in Reach(player, p, pos) :
                   c \in Cells /\ (p # rat => c \notin ponds)

\* player 0's lion has leapt over the river from (5, 6) to (5, 2) while player
\* 0's rat is in the water
C18_Witness ==
    /\ rounds = 1
    /\ Has(pre.pieces[0], lion) /\ Get(pre.pieces[0], lion) = <<5, 6>>
    /\ Get(pieces[0], lion) = <<5, 2>>
    /\ Get(pieces[0], rat) \in ponds

\* C19: in every state dens[p] is empty or holds a piece of player 1 - p, no
\* move in moves(player) ends on dens[player], victory's test of the cell
\* dens[1 - player] being occupied is the test of player standing on it, and
\* from no cell can a piece be sent to the den of its own player.
C19_NoPieceOnOwnDen ==
    /\ \A p \in 0..1 : At(board, dens[p]) = None \/ At(board, dens[p])[1] = 1 - p
    /\ \A player \in 0..1 :
          LET ms == moves(board, pieces, player)
          IN \A i \in 1..Len(ms) : ms[i][2] # dens[player]
    /\ \A player \in 0..1 :
          (At(board, dens[1 - player]) # None) = OnDenOfOpponent(player)
    /\ (pc = "play" /\ rounds = 0) =>
          \A player \in 0..1 : \A p \in 0..7 :
             \A pos \in (IF p = rat THEN Cells ELSE Cells \ ponds) :
                dens[player] \notin Reach(player, p, pos)

\* a player with a piece beside its own den, the den empty, asked for the step
\* into the den, and WrongMove was raised
C19_Witness ==
    /\ pc = "WrongMove" /\ said # <<>>
    /\ Decoded(said[2])[2] = dens[said[1]]
    /\ At(board, Decoded(said[2])[1]) # None
    /\ At(board, Decoded(said[2])[1])[1] = said[1]
    /\ At(board, dens[said[1]]) = None

\* sym has returned an outcome
SymReturned == pc \in {"sym True", "sym False"}

\* inside sym's while loop
InRollout == pc \in {"sym0", "sym1"}

\* C20: every rollout returns an outcome, the first one and each one started
\* after it; on the way the passivity counter of the object played on never
\* exceeds MAXIMAL_PASSIVE, and at no point of sym's while loop are both
\* players without a legal move.
C20_RolloutTerminates ==
    /\ [](HasArgument => Value(roll).peace_counter <= MAXIMAL_PASSIVE)
    /\ [](InRollout =>
            \/ moves(Value(roll).board, Value(roll).pieces, 0) # <<>>
            \/ moves(Value(roll).board, Value(roll).pieces, 1) # <<>>)
    /\ <>SymReturned
    /\ (pc \in {"sym", "sym0", "sym1"}) ~> SymReturned

\* a rollout has returned with the counter at MAXIMAL_PASSIVE, player 0 having
\* passed to the end with its rat shut in
C20_Witness ==
    /\ SymReturned
    /\ Value(roll).peace_counter = MAXIMAL_PASSIVE
    /\ said # <<>> /\ said[1] = 1
    /\ Value(roll).pieces[0] # <<>>
    /\ moves(Value(roll).board, Value(roll).pieces, 0) = <<>>

====
